---- MODULE Spec2Model ----
(***************************************************************************)
(* scripts/pr_score_delta.py: the score delta between two scan/score       *)
(* documents (compute_delta), the new uninstrumented call sites            *)
(* (find_new_uninstrumented), the markdown report (render_markdown) and    *)
(* the command line (main).                                                *)
(*                                                                         *)
(* A JSON value, as json.load returns it, is a record tagged by its Python *)
(* type: dict "obj" (m: a function from keys to values), list "list" (l),  *)
(* str "str" (s), int "int" (i), float "float" (c: the value in            *)
(* hundredths), bool "bool" (b), None "null".  A raised exception is the   *)
(* value "raise" (exc: the exception's class); every operator hands a      *)
(* raised exception on to its caller, as Python does.                      *)
(*                                                                         *)
(* Floats are decimal in the model and binary in Python: the scores the    *)
(* model draws are multiples of 0.25 and the counts are small, where both  *)
(* agree on every subtraction, division and rounding modelled here.        *)
(***************************************************************************)
EXTENDS Integers, Sequences, FiniteSets, TLC

VARIABLES pc, args, base_file, head_file, base, head, delta, new_sites,
          result, written, stderr, exit_code

vars == <<pc, args, base_file, head_file, base, head, delta, new_sites,
          result, written, stderr, exit_code>>

-----------------------------------------------------------------------------
(* Values *)

Dict(m) == [t |-> "obj", m |-> m]
PyList(l) == [t |-> "list", l |-> l]
PyStr(s) == [t |-> "str", s |-> s]
PyInt(i) == [t |-> "int", i |-> i]
PyFloat(c) == [t |-> "float", c |-> c]
PyBool(b) == [t |-> "bool", b |-> b]
None == [t |-> "null"]
Raise(exc) == [t |-> "raise", exc |-> exc]
EmptyDict == Dict(<<>>)
EmptyPyList == PyList(<<>>)

IsRaise(v) == v.t = "raise"

\* The first raised exception of a sequence of values in evaluation order.
FirstRaise(vals) ==
    LET hits == {k \in 1..Len(vals) : IsRaise(vals[k])}
    IN vals[CHOOSE k \in hits : \A j \in hits : k <= j]

AnyRaise(vals) == \E k \in 1..Len(vals) : IsRaise(vals[k])

\* d[k] in place of d.get(k, default): an absent key raises KeyError.
GetSubscript(d, k, default) ==
    IF IsRaise(d) THEN d
    ELSE IF d.t # "obj" THEN Raise("AttributeError")
    ELSE IF IsRaise(default) THEN default
    ELSE IF k \in DOMAIN d.m THEN d.m[k] ELSE Raise("KeyError")

\* d.get(k, default): only a dict has the method.
Get(d, k, default) ==
    IF IsRaise(d) THEN d
    ELSE IF d.t # "obj" THEN Raise("AttributeError")
    ELSE IF IsRaise(default) THEN default
    ELSE IF k \in DOMAIN d.m THEN d.m[k] ELSE default

\* d[k] on the records this program builds itself.
Item(d, k) ==
    IF IsRaise(d) THEN d
    ELSE IF d.t # "obj" THEN Raise("TypeError")
    ELSE IF k \in DOMAIN d.m THEN d.m[k] ELSE Raise("KeyError")

\* bool(v)
Truthy(v) ==
    CASE v.t = "bool" -> v.b
      [] v.t = "int" -> v.i # 0
      [] v.t = "float" -> v.c # 0
      [] v.t = "str" -> v.s # ""
      [] v.t = "list" -> v.l # <<>>
      [] v.t = "obj" -> DOMAIN v.m # {}
      [] v.t = "null" -> FALSE

-----------------------------------------------------------------------------
(* Numbers *)

IsNum(v) == v.t \in {"int", "float", "bool"}

\* A number's value in hundredths (a bool is the int 1 or 0).
Centi(v) ==
    CASE v.t = "int" -> 100 * v.i
      [] v.t = "float" -> v.c
      [] v.t = "bool" -> IF v.b THEN 100 ELSE 0

IntOf(v) == IF v.t = "bool" THEN (IF v.b THEN 1 ELSE 0) ELSE v.i

\* num/den rounded to the nearest integer, a tie to the even one (den > 0).
RoundHalfEven(num, den) ==
    LET q == num \div den
        r == num % den
    IN IF 2 * r < den THEN q
       ELSE IF 2 * r > den THEN q + 1
       ELSE IF q % 2 = 0 THEN q ELSE q + 1

\* a - b
Sub(a, b) ==
    IF IsRaise(a) THEN a
    ELSE IF IsRaise(b) THEN b
    ELSE IF ~(IsNum(a) /\ IsNum(b)) THEN Raise("TypeError")
    ELSE IF a.t = "float" \/ b.t = "float" THEN PyFloat(Centi(a) - Centi(b))
    ELSE PyInt(IntOf(a) - IntOf(b))

\* round(x, 1): an int stays an int, a float goes to the nearest tenth.
Round1(x) ==
    IF IsRaise(x) THEN x
    ELSE IF ~IsNum(x) THEN Raise("TypeError")
    ELSE IF x.t = "float" THEN PyFloat(10 * RoundHalfEven(x.c, 10))
    ELSE PyInt(IntOf(x))

\* The same without the "if sites > 0" guard.
CoveragePctZeroUnguarded(instr, sites) ==
    IF IsRaise(sites) THEN sites
    ELSE IF IsRaise(instr) THEN instr
    ELSE IF ~IsNum(sites) THEN Raise("TypeError")
    ELSE IF Centi(sites) = 0 THEN Raise("ZeroDivisionError")
    ELSE IF ~IsNum(instr) THEN Raise("TypeError")
    ELSE PyFloat(10 * RoundHalfEven(1000 * Centi(instr), Centi(sites)))

\* round(instr / sites * 100, 1) if sites > 0 else 0
CoveragePct(instr, sites) ==
    IF IsRaise(sites) THEN sites
    ELSE IF IsRaise(instr) THEN instr
    ELSE IF ~IsNum(sites) THEN Raise("TypeError")
    ELSE IF Centi(sites) > 0
         THEN IF ~IsNum(instr) THEN Raise("TypeError")
              ELSE PyFloat(10 * RoundHalfEven(1000 * Centi(instr), Centi(sites)))
         ELSE PyInt(0)

-----------------------------------------------------------------------------
(* compute_delta *)

\* The same without the fallback to scan itself.
ScanSummaryNoFallback(doc) == Get(Get(doc, "scan", EmptyDict), "summary", EmptyDict)

\* doc.get("scan", {}).get("summary", doc.get("scan", {}))
ScanSummary(doc) ==
    Get(Get(doc, "scan", EmptyDict), "summary", Get(doc, "scan", EmptyDict))

\* The same without round(..., 1).
ScoreDeltaUnrounded(h, b) == Sub(h, b)

\* round(h_score_val - b_score_val, 1)
ScoreDelta(h, b) == Round1(Sub(h, b))

\* h - b for sites_total, instrumented and uninstrumented
MetricDelta(h, b) == Sub(h, b)

\* the "coverage_pct" entry of the returned dict
CoverageEntry(b_instr, b_sites, h_instr, h_sites) ==
    [base |-> CoveragePct(b_instr, b_sites),
     head |-> CoveragePct(h_instr, h_sites)]

compute_delta(b, h) ==
    LET base_scan == ScanSummary(b)
        head_scan == ScanSummary(h)
        base_score == Get(b, "score", EmptyDict)
        head_score == Get(h, "score", EmptyDict)
        b_sites == Get(base_scan, "sites_total", PyInt(0))
        h_sites == Get(head_scan, "sites_total", PyInt(0))
        b_instr == Get(base_scan, "instrumented", PyInt(0))
        h_instr == Get(head_scan, "instrumented", PyInt(0))
        b_uninstr == Get(base_scan, "uninstrumented", PyInt(0))
        h_uninstr == Get(head_scan, "uninstrumented", PyInt(0))
        b_score_val == Get(base_score, "score", PyInt(0))
        h_score_val == Get(head_score, "score", PyInt(0))
        b_grade == Get(base_score, "grade", PyStr("?"))
        h_grade == Get(head_score, "grade", PyStr("?"))
        d_sites == MetricDelta(h_sites, b_sites)
        d_instr == MetricDelta(h_instr, b_instr)
        d_uninstr == MetricDelta(h_uninstr, b_uninstr)
        d_score == ScoreDelta(h_score_val, b_score_val)
        cov == CoverageEntry(b_instr, b_sites, h_instr, h_sites)
        steps == <<base_scan, head_scan, base_score, head_score,
                   b_sites, h_sites, b_instr, h_instr, b_uninstr, h_uninstr,
                   b_score_val, h_score_val, b_grade, h_grade,
                   d_sites, d_instr, d_uninstr, d_score, cov.base, cov.head>>
    IN IF AnyRaise(steps) THEN FirstRaise(steps)
       ELSE Dict([sites_total |-> Dict([base |-> b_sites, head |-> h_sites, delta |-> d_sites]),
                 instrumented |-> Dict([base |-> b_instr, head |-> h_instr, delta |-> d_instr]),
                 uninstrumented |-> Dict([base |-> b_uninstr, head |-> h_uninstr, delta |-> d_uninstr]),
                 score |-> Dict([base |-> b_score_val, head |-> h_score_val, delta |-> d_score]),
                 grade |-> Dict([base |-> b_grade, head |-> h_grade]),
                 coverage_pct |-> Dict(cov)])


-----------------------------------------------------------------------------
(* str() and the f-string conversions *)

Digit(d) == SubSeq("0123456789", d + 1, d + 1)

\* repr of a float given in hundredths: 1000 is "10.0", 1025 is "10.25".
FloatRepr(c) ==
    LET a == IF c < 0 THEN -c ELSE c
        frac == a % 100
    IN (IF c < 0 THEN "-" ELSE "") \o ToString(a \div 100) \o "." \o
       (IF frac % 10 = 0 THEN Digit(frac \div 10)
        ELSE Digit(frac \div 10) \o Digit(frac % 10))

\* str(v), which is also what an f-string field without a format gives.
\* Non-empty containers do not occur where the program converts to text.
StrOf(v) ==
    CASE v.t = "str" -> v.s
      [] v.t = "int" -> ToString(v.i)
      [] v.t = "float" -> FloatRepr(v.c)
      [] v.t = "bool" -> IF v.b THEN "True" ELSE "False"
      [] v.t = "null" -> "None"
      [] v.t = "list" /\ v.l = <<>> -> "[]"
      [] v.t = "obj" /\ DOMAIN v.m = {} -> "{}"

-----------------------------------------------------------------------------
(* find_new_uninstrumented *)

Cap == 10

Min(a, b) == IF a <= b THEN a ELSE b

RECURSIVE KeysOf(_)
KeysOf(S) ==
    IF S = {} THEN <<>>
    ELSE LET k == CHOOSE x \in S : TRUE IN <<PyStr(k)>> \o KeysOf(S \ {k})

\* for site in v: the elements a for loop visits.
Iterate(v) ==
    CASE IsRaise(v) -> v
      [] v.t = "list" -> v
      [] v.t = "obj" -> PyList(KeysOf(DOMAIN v.m))
      [] v.t = "str" -> PyList([k \in 1..Len(v.s) |-> PyStr(SubSeq(v.s, k, k))])
      [] OTHER -> Raise("TypeError")

\* doc.get("scan", {}).get("sites", doc.get("sites", []))
SiteList(doc) ==
    Get(Get(doc, "scan", EmptyDict), "sites", Get(doc, "sites", EmptyPyList))

\* f"{site.get('file', '')}:{site.get('line', '')}:{site.get('call', '')}"
SiteKey(site) ==
    LET f == Get(site, "file", PyStr(""))
        l == Get(site, "line", PyStr(""))
        c == Get(site, "call", PyStr(""))
    IN IF AnyRaise(<<f, l, c>>) THEN FirstRaise(<<f, l, c>>)
       ELSE PyStr(StrOf(f) \o ":" \o StrOf(l) \o ":" \o StrOf(c))

\* The first loop: the set base_sites, or the exception a site raised.
RECURSIVE BaseLoop(_, _, _)
BaseLoop(sites, k, base_sites) ==
    IF k > Len(sites) THEN [t |-> "set", e |-> base_sites]
    ELSE LET key == SiteKey(sites[k])
         IN IF IsRaise(key) THEN key
            ELSE BaseLoop(sites, k + 1, base_sites \cup {key.s})

\* not site.get("instrumented", False)
Uninstrumented(site) ==
    LET i == Get(site, "instrumented", PyBool(FALSE))
    IN IF IsRaise(i) THEN i ELSE PyBool(~Truthy(i))

\* The same dict with the line left as the site gives it.
NewSiteRecordRawLine(site) ==
    Dict([file |-> Get(site, "file", PyStr("unknown")),
          line |-> Get(site, "line", PyStr("?")),
          call |-> Get(site, "call", PyStr("unknown")),
          provider |-> Get(site, "provider", PyStr("unknown"))])

\* The dict appended to head_new for a site.
NewSiteRecord(site) ==
    Dict([file |-> Get(site, "file", PyStr("unknown")),
          line |-> PyStr(StrOf(Get(site, "line", PyStr("?")))),
          call |-> Get(site, "call", PyStr("unknown")),
          provider |-> Get(site, "provider", PyStr("unknown"))])

\* The same without the membership test.
IsNewKeyAlways(key, base_sites) == TRUE

\* key not in base_sites
IsNewKey(key, base_sites) == key \notin base_sites

\* The second loop: head_new, each entry with the index of the head site
\* it was appended for, or the exception a site raised.
RECURSIVE HeadLoop(_, _, _, _)
HeadLoop(sites, k, base_sites, head_new) ==
    IF k > Len(sites) THEN PyList(head_new)
    ELSE LET site == sites[k]
             u == Uninstrumented(site)
         IN IF IsRaise(u) THEN u
            ELSE IF ~u.b THEN HeadLoop(sites, k + 1, base_sites, head_new)
            ELSE LET key == SiteKey(site)
                 IN IF IsRaise(key) THEN key
                    ELSE IF IsNewKey(key.s, base_sites)
                    THEN HeadLoop(sites, k + 1, base_sites,
                                  Append(head_new, [idx |-> k, rec |-> NewSiteRecord(site)]))
                    ELSE HeadLoop(sites, k + 1, base_sites, head_new)

\* head_new[:10]
Truncate(head_new) == SubSeq(head_new, 1, Min(Len(head_new), Cap))

\* The entries find_new_uninstrumented returns, or the exception it raises.
FindNewEntries(b, h) ==
    LET bl == Iterate(SiteList(b))
    IN IF IsRaise(bl) THEN bl
       ELSE LET bs == BaseLoop(bl.l, 1, {})
            IN IF IsRaise(bs) THEN bs
               ELSE LET hl == Iterate(SiteList(h))
                    IN IF IsRaise(hl) THEN hl
                       ELSE LET hn == HeadLoop(hl.l, 1, bs.e, <<>>)
                            IN IF IsRaise(hn) THEN hn
                               ELSE PyList(Truncate(hn.l))

find_new_uninstrumented(b, h) ==
    LET r == FindNewEntries(b, h)
    IN IF IsRaise(r) THEN r ELSE PyList([k \in 1..Len(r.l) |-> r.l[k].rec])

-----------------------------------------------------------------------------
(* render_markdown *)

\* a > 0, a < 0 on numbers; anything else raises TypeError.
Positive(v) ==
    IF IsRaise(v) THEN v
    ELSE IF ~IsNum(v) THEN Raise("TypeError")
    ELSE PyBool(Centi(v) > 0)

Negative(v) ==
    IF IsRaise(v) THEN v
    ELSE IF ~IsNum(v) THEN Raise("TypeError")
    ELSE PyBool(Centi(v) < 0)

\* a != b (numbers compare by value)
NotEqual(a, b) == IF IsNum(a) /\ IsNum(b) THEN Centi(a) # Centi(b) ELSE a # b

\* format(v, ".1f") and, with plus, format(v, "+.1f")
Format1f(v, plus) ==
    IF IsRaise(v) THEN v
    ELSE IF v.t = "str" THEN Raise("ValueError")
    ELSE IF ~IsNum(v) THEN Raise("TypeError")
    ELSE LET c == Centi(v)
             a == IF c < 0 THEN -c ELSE c
             tenths == RoundHalfEven(a, 10)
         IN PyStr((IF c < 0 THEN "-" ELSE IF plus THEN "+" ELSE "") \o
                  ToString(tenths \div 10) \o "." \o Digit(tenths % 10))

\* format(v, "+d"): an int only
FormatPlusD(v) ==
    IF IsRaise(v) THEN v
    ELSE IF v.t \in {"float", "str"} THEN Raise("ValueError")
    ELSE IF ~IsNum(v) THEN Raise("TypeError")
    ELSE PyStr((IF IntOf(v) < 0 THEN "" ELSE "+") \o ToString(IntOf(v)))

\* {v} in an f-string
Fmt(v) == IF IsRaise(v) THEN v ELSE PyStr(StrOf(v))

RECURSIVE Join(_, _)
Join(strs, sep) ==
    IF strs = <<>> THEN ""
    ELSE IF Len(strs) = 1 THEN strs[1]
    ELSE strs[1] \o sep \o Join(Tail(strs), sep)

\* An f-string: its pieces joined, or the first exception a field raised.
FString(parts) ==
    IF AnyRaise(parts) THEN FirstRaise(parts)
    ELSE PyStr(Join([k \in 1..Len(parts) |-> parts[k].s], ""))

\* The label set whatever the sign of the delta.
ScoreIconAlwaysImproved(d) == PyStr(" [improved]")

\* score_icon
ScoreIcon(d) ==
    LET pos == Positive(d)
        neg == Negative(d)
    IN IF IsRaise(pos) THEN pos
       ELSE IF pos.b THEN PyStr(" [improved]")
       ELSE IF neg.b THEN PyStr(" [regressed]")
       ELSE PyStr("")

\* | **Score** | base | head | delta icon |
ScoreRow(s, score_icon) ==
    FString(<<PyStr("| **Score** | "), Format1f(Item(s, "base"), FALSE), PyStr(" | "),
              Format1f(Item(s, "head"), FALSE), PyStr(" | "),
              Format1f(Item(s, "delta"), TRUE), score_icon, PyStr(" |")>>)

GradeRow(g) ==
    LET gb == Item(g, "base")
        gh == Item(g, "head")
        grade_change == IF IsRaise(gb) THEN gb
                        ELSE IF IsRaise(gh) THEN gh
                        ELSE IF NotEqual(gb, gh)
                             THEN FString(<<Fmt(gb), PyStr(" -> "), Fmt(gh)>>)
                             ELSE Fmt(gh)
    IN FString(<<PyStr("| **Grade** | "), Fmt(gb), PyStr(" | "), Fmt(gh),
                 PyStr(" | "), grade_change, PyStr(" |")>>)

CountRow(label, m) ==
    FString(<<PyStr("| " \o label \o " | "), Fmt(Item(m, "base")), PyStr(" | "),
              Fmt(Item(m, "head")), PyStr(" | "), FormatPlusD(Item(m, "delta")),
              PyStr(" |")>>)

CoverageRow(cov) ==
    LET cov_delta == Sub(Item(cov, "head"), Item(cov, "base"))
    IN FString(<<PyStr("| Coverage | "), Format1f(Item(cov, "base"), FALSE), PyStr("% | "),
                 Format1f(Item(cov, "head"), FALSE), PyStr("% | "),
                 Format1f(cov_delta, TRUE), PyStr("% |")>>)

\* A TLA+ string cannot hold the backquote of the source's code spans: the
\* apostrophe stands for it.
Backquote == "'"

SiteRow(site) ==
    FString(<<PyStr("| " \o Backquote), Fmt(Item(site, "file")),
              PyStr(Backquote \o " | "), Fmt(Item(site, "line")),
              PyStr(" | " \o Backquote), Fmt(Item(site, "call")),
              PyStr(Backquote \o " | "),
              Fmt(Item(site, "provider")), PyStr(" |")>>)

Footer ==
    "*Generated by [Assay Scorecard](https://haserjian.github.io/assay-scorecard/) | [Methodology](https://haserjian.github.io/assay-scorecard/methodology.html)*"

FixHint ==
    "> Fix: " \o Backquote \o "pip install assay-ai && assay patch ." \o Backquote \o
    " to auto-instrument these sites."

\* The section appended whether or not new_sites is empty.
NewSitesSectionAlways(sites) ==
    <<PyStr(""), PyStr("### New Uninstrumented Call Sites"), PyStr(""),
      PyStr("| File | Line | Call | Provider |"),
      PyStr("|------|------|------|----------|")>>
    \o [k \in 1..Len(sites.l) |-> SiteRow(sites.l[k])]
    \o <<PyStr(""), PyStr(FixHint)>>

\* The lines appended when new_sites is not empty.
NewSitesSection(sites) ==
    IF sites.l = <<>> THEN <<>>
    ELSE <<PyStr(""), PyStr("### New Uninstrumented Call Sites"), PyStr(""),
           PyStr("| File | Line | Call | Provider |"),
           PyStr("|------|------|------|----------|")>>
         \o [k \in 1..Len(sites.l) |-> SiteRow(sites.l[k])]
         \o <<PyStr(""), PyStr(FixHint)>>

\* The list "lines" of render_markdown, in order.
MarkdownLines(d, sites) ==
    <<PyStr("## Evidence Readiness Score Delta"), PyStr(""),
      ScoreIcon(Item(Item(d, "score"), "delta")),
      PyStr("| Metric | Base | Head | Delta |"),
      PyStr("|--------|------|------|-------|"),
      ScoreRow(Item(d, "score"), ScoreIcon(Item(Item(d, "score"), "delta"))),
      GradeRow(Item(d, "grade")),
      CountRow("Call Sites", Item(d, "sites_total")),
      CountRow("Instrumented", Item(d, "instrumented")),
      CountRow("Uninstrumented", Item(d, "uninstrumented")),
      CoverageRow(Item(d, "coverage_pct"))>>
    \o NewSitesSection(sites)
    \o <<PyStr(""), PyStr("---"), PyStr(Footer)>>

\* "\n".join(lines), or the first exception raised on the way.  The third
\* element above is score_icon, computed before the table and no line itself.
render_markdown(d, sites) ==
    LET ls == MarkdownLines(d, sites)
        kept == [k \in 1..(Len(ls) - 1) |-> IF k < 3 THEN ls[k] ELSE ls[k + 1]]
    IN IF AnyRaise(ls) THEN FirstRaise(ls)
       ELSE PyStr(Join([k \in 1..Len(kept) |-> kept[k].s], "\n"))

-----------------------------------------------------------------------------
(* json.dumps(output, indent=2) *)

\* The keys of the dicts main serialises, in the order they are inserted.
KeyOrder ==
    <<"base", "head", "delta", "new_uninstrumented_sites", "regressed",
      "sites_total", "instrumented", "uninstrumented", "score", "grade",
      "coverage_pct", "file", "line", "call", "provider">>

OrderedKeys(m) == SelectSeq(KeyOrder, LAMBDA k : k \in DOMAIN m)

RECURSIVE Spaces(_)
Spaces(n) == IF n = 0 THEN "" ELSE " " \o Spaces(n - 1)

\* Strings are written between quotes; the texts drawn here need no escape.
RECURSIVE JsonDumps(_, _)
JsonDumps(v, level) ==
    CASE v.t = "str" -> "\"" \o v.s \o "\""
      [] v.t = "int" -> ToString(v.i)
      [] v.t = "float" -> FloatRepr(v.c)
      [] v.t = "bool" -> IF v.b THEN "true" ELSE "false"
      [] v.t = "null" -> "null"
      [] v.t = "list" ->
            IF v.l = <<>> THEN "[]"
            ELSE "[\n" \o
                 Join([k \in 1..Len(v.l) |->
                         Spaces(2 * (level + 1)) \o JsonDumps(v.l[k], level + 1)], ",\n")
                 \o "\n" \o Spaces(2 * level) \o "]"
      [] v.t = "obj" ->
            IF DOMAIN v.m = {} THEN "{}"
            ELSE LET ks == OrderedKeys(v.m)
                 IN "{\n" \o
                    Join([k \in 1..Len(ks) |->
                            Spaces(2 * (level + 1)) \o "\"" \o ks[k] \o "\": "
                            \o JsonDumps(v.m[ks[k]], level + 1)], ",\n")
                    \o "\n" \o Spaces(2 * level) \o "}"

\* The same record with regressed set only under --fail-on-regression.
JsonOutputRegressedWhenFlagged(d, sites) ==
    Dict([delta |-> d,
          new_uninstrumented_sites |-> sites,
          regressed |-> IF args.fail_on_regression
                        THEN Negative(Item(Item(d, "score"), "delta"))
                        ELSE PyBool(FALSE)])

\* The record main serialises in --json mode.
JsonOutput(d, sites) ==
    Dict([delta |-> d,
          new_uninstrumented_sites |-> sites,
          regressed |-> Negative(Item(Item(d, "score"), "delta"))])

-----------------------------------------------------------------------------
(* The documents the model draws, built as the tests' fixtures build them *)

MaxCount == 3
MaxFill == 10

\* m with key k removed, and with key k set to v.
Without(d, k) == Dict([x \in DOMAIN d.m \ {k} |-> d.m[x]])
With(d, k, v) == Dict([x \in DOMAIN d.m \cup {k} |-> IF x = k THEN v ELSE d.m[x]])

\* _scan_score(...)
ScanScore(sites_total, instrumented, uninstrumented, score, grade, sites) ==
    Dict([scan |-> Dict([summary |-> Dict([sites_total |-> PyInt(sites_total),
                                           instrumented |-> PyInt(instrumented),
                                           uninstrumented |-> PyInt(uninstrumented)]),
                         sites |-> PyList(sites)]),
          score |-> Dict([score |-> score, grade |-> PyStr(grade)])])

\* _site(...)
Site(file, line, call, provider, instrumented) ==
    Dict([file |-> PyStr(file), line |-> line, call |-> PyStr(call),
          provider |-> PyStr(provider), instrumented |-> PyBool(instrumented)])

\* The other legal layout of the summary: its fields directly under scan.
FlatSummary(doc) ==
    LET scan == doc.m["scan"]
        summary == scan.m["summary"]
        rest == Without(scan, "summary")
    IN With(doc, "scan",
            Dict([x \in DOMAIN rest.m \cup DOMAIN summary.m |->
                    IF x \in DOMAIN summary.m THEN summary.m[x] ELSE rest.m[x]]))

\* The other legal layout of the site list: under the top-level key sites.
TopLevelSites(doc) ==
    LET scan == doc.m["scan"]
    IN With(With(doc, "scan", Without(scan, "sites")), "sites", scan.m["sites"])

HasSummary(doc) ==
    /\ doc.t = "obj" /\ "scan" \in DOMAIN doc.m
    /\ doc.m["scan"].t = "obj" /\ "summary" \in DOMAIN doc.m["scan"].m
    /\ doc.m["scan"].m["summary"].t = "obj"

HasScanSites(doc) ==
    /\ doc.t = "obj" /\ "scan" \in DOMAIN doc.m
    /\ doc.m["scan"].t = "obj" /\ "sites" \in DOMAIN doc.m["scan"].m

Counts == 0..MaxCount

MetricDocs ==
    {ScanScore(st, i, IF st > i THEN st - i ELSE 0, PyFloat(1750), "F", <<>>) :
        st \in Counts, i \in Counts}

ScoreVals ==
    {PyInt(0), PyInt(20), PyFloat(1000), PyFloat(1025), PyFloat(1075),
     PyFloat(1750), PyFloat(2500)}

ScoreDocs ==
    LET full == {ScanScore(2, 1, 1, s, g, <<>>) : s \in ScoreVals, g \in {"F", "C"}}
    IN full \cup {With(d, "score", Without(d.m["score"], "grade")) :
                    d \in {ScanScore(2, 1, 1, s, "F", <<>>) : s \in ScoreVals}}

SiteA == Site("a.py", PyInt(1), "f", "openai", FALSE)
SiteAInstrumented == Site("a.py", PyInt(1), "f", "anthropic", TRUE)
SiteATextLine == Site("a.py", PyStr("1"), "f", "openai", FALSE)
SiteColonFile == Site("a.py:1", PyInt(2), "f", "openai", FALSE)
SiteColonCall == Site("a.py", PyInt(1), "2:f", "openai", FALSE)
SiteNoFlag == Without(Site("n.py", PyInt(3), "g", "openai", FALSE), "instrumented")
SiteNoFields == EmptyDict
SiteColonCallNoFlag == Without(SiteColonCall, "instrumented")
SiteImproved == Site("improved.py", PyInt(4), "regressed", "openai", FALSE)

SiteUniverse ==
    {SiteA, SiteAInstrumented, SiteATextLine, SiteColonFile, SiteColonCall,
     SiteNoFlag, SiteNoFields, SiteColonCallNoFlag, SiteImproved}

\* _site(file=f"f{i}.py", line=i), as test_capped_at_10 builds its sites
FillerSite(i) == Site("f" \o ToString(i) \o ".py", PyInt(i), "g", "openai", FALSE)

Filler(n) == [i \in 1..n |-> FillerSite(i)]

FillCounts == {0} \cup ((Cap - 1)..MaxFill)

ShortLists == {<<>>} \cup {<<s>> : s \in SiteUniverse}

BaseSiteLists == ShortLists \cup {<<FillerSite(1)>>, <<SiteA, SiteColonFile>>}

HeadSiteLists ==
    {pre \o Filler(n) \o post :
        pre \in {<<>>, <<SiteA>>, <<SiteAInstrumented>>, <<SiteNoFlag>>},
        n \in FillCounts, post \in ShortLists}

SiteBaseDocs ==
    LET nested == {ScanScore(2, 1, 1, PyFloat(1750), "F", l) : l \in BaseSiteLists}
    IN nested \cup {TopLevelSites(d) : d \in {ScanScore(2, 1, 1, PyFloat(1750), "F", <<SiteA>>)}}

SiteHeadDocs ==
    LET nested == {ScanScore(2, 1, 1, PyFloat(1750), "F", l) : l \in HeadSiteLists}
    IN nested \cup {TopLevelSites(d) :
                      d \in {ScanScore(2, 1, 1, PyFloat(1750), "F", <<SiteA, SiteImproved>>)}}

\* Documents with keys absent, and documents whose values have the wrong type.
AbsentKeyDocs ==
    {EmptyDict,
     Dict([scan |-> EmptyDict, score |-> EmptyDict]),
     Dict([scan |-> Dict([summary |-> EmptyDict])]),
     Dict([scan |-> Dict([sites_total |-> PyInt(2)])]),
     Dict([scan |-> Dict([summary |-> Dict([sites_total |-> PyInt(3)]),
                          instrumented |-> PyInt(2)])]),
     Dict([score |-> Dict([score |-> PyFloat(1000)])]),
     Dict([score |-> Dict([grade |-> PyStr("C")])]),
     Dict([sites |-> PyList(<<SiteA>>)]),
     Dict([scan |-> Dict([sites |-> PyList(<<SiteNoFields, SiteNoFlag>>)])]),
     ScanScore(2, 1, 1, PyFloat(1750), "F", <<SiteA>>),
     FlatSummary(ScanScore(3, 2, 1, PyFloat(2500), "C", <<>>))}

MalformedDocs ==
    {Dict([scan |-> None]),
     Dict([score |-> EmptyPyList]),
     Dict([scan |-> Dict([summary |-> Dict([sites_total |-> PyStr("ten")])])]),
     Dict([scan |-> Dict([sites |-> PyList(<<PyStr("a.py")>>)])]),
     Dict([sites |-> None])}

ShapeDocs == AbsentKeyDocs \cup MalformedDocs

FnInputs ==
    LET metric == MetricDocs \cup {FlatSummary(d) : d \in MetricDocs}
    IN (metric \X metric) \cup (ScoreDocs \X ScoreDocs)
       \cup (ShapeDocs \X ShapeDocs) \cup (SiteBaseDocs \X SiteHeadDocs)

NoArgs == [json_output |-> FALSE, fail_on_regression |-> FALSE, output |-> FALSE]
NoFile == [kind |-> "missing", content |-> None]
NotWritten == [to |-> "none", text |-> ""]

-----------------------------------------------------------------------------
(* The three functions, each called on the documents drawn *)

FnInit ==
    /\ \E p \in FnInputs : base = p[1] /\ head = p[2]
    /\ pc = "call_compute_delta"
    /\ args = NoArgs
    /\ base_file = NoFile
    /\ head_file = NoFile
    /\ delta = None
    /\ new_sites = None
    /\ result = None
    /\ written = NotWritten
    /\ stderr = ""
    /\ exit_code = -1

CallComputeDelta ==
    /\ pc = "call_compute_delta"
    /\ delta' = compute_delta(base, head)
    /\ pc' = "call_find_new_uninstrumented"
    /\ UNCHANGED <<args, base_file, head_file, base, head, new_sites, result,
                   written, stderr, exit_code>>

CallFindNewUninstrumented ==
    /\ pc = "call_find_new_uninstrumented"
    /\ new_sites' = find_new_uninstrumented(base, head)
    /\ pc' = "call_render_markdown"
    /\ UNCHANGED <<args, base_file, head_file, base, head, delta, result,
                   written, stderr, exit_code>>

CallRenderMarkdown ==
    /\ pc = "call_render_markdown"
    /\ ~IsRaise(delta) /\ ~IsRaise(new_sites)
    /\ result' = render_markdown(delta, new_sites)
    /\ pc' = "returned"
    /\ UNCHANGED <<args, base_file, head_file, base, head, delta, new_sites,
                   written, stderr, exit_code>>

FnNext == CallComputeDelta \/ CallFindNewUninstrumented \/ CallRenderMarkdown

FnSpec == FnInit /\ [][FnNext]_vars

-----------------------------------------------------------------------------
(* main *)

\* What the two paths hold: nothing, a directory, text that is not JSON, or
\* a JSON value (which need not be a dict).
MainContents ==
    {ScanScore(2, 1, 1, PyFloat(1750), "F", <<SiteA>>),
     ScanScore(3, 1, 2, PyFloat(1000), "F", <<SiteA, SiteColonFile>>),
     Dict([scan |-> EmptyDict, score |-> EmptyDict]),
     EmptyPyList,
     Dict([scan |-> None])}

Files ==
    {[kind |-> k, content |-> None] : k \in {"missing", "directory", "invalid_json"}}
    \cup {[kind |-> "json", content |-> c] : c \in MainContents}

Init ==
    /\ pc = "start"
    /\ args \in [json_output : BOOLEAN, fail_on_regression : BOOLEAN, output : BOOLEAN]
    /\ base_file \in Files
    /\ head_file \in Files
    /\ base = None
    /\ head = None
    /\ delta = None
    /\ new_sites = None
    /\ result = None
    /\ written = NotWritten
    /\ stderr = ""
    /\ exit_code = -1

\* sys.exit(code) after a message on standard error
Exit(code, message) ==
    /\ exit_code' = code
    /\ stderr' = message
    /\ pc' = "exited"

\* An exception nothing catches: the interpreter prints the traceback and
\* exits with status 1.
Uncaught(e) == Exit(1, "Traceback (most recent call last): " \o e.exc)

\* with open(path) as f: return json.load(f)
load_scan_score(file) ==
    CASE file.kind = "missing" -> Raise("FileNotFoundError")
      [] file.kind = "directory" -> Raise("IsADirectoryError")
      [] file.kind = "invalid_json" -> Raise("JSONDecodeError")
      [] file.kind = "json" -> file.content

CheckBaseExists ==
    /\ pc = "start"
    /\ IF base_file.kind = "missing"
       THEN Exit(3, "Error: base file not found")
       ELSE pc' = "check_head" /\ UNCHANGED <<stderr, exit_code>>
    /\ UNCHANGED <<args, base_file, head_file, base, head, delta, new_sites,
                   result, written>>

CheckHeadExists ==
    /\ pc = "check_head"
    /\ IF head_file.kind = "missing"
       THEN Exit(3, "Error: head file not found")
       ELSE pc' = "load" /\ UNCHANGED <<stderr, exit_code>>
    /\ UNCHANGED <<args, base_file, head_file, base, head, delta, new_sites,
                   result, written>>

CaughtByMain == {"JSONDecodeError", "KeyError"}

LoadInputs ==
    /\ pc = "load"
    /\ LET b == load_scan_score(base_file)
           h == IF IsRaise(b) THEN b ELSE load_scan_score(head_file)
       IN IF IsRaise(h)
          THEN /\ IF h.exc \in CaughtByMain
                  THEN Exit(3, "Error: failed to parse input: " \o h.exc)
                  ELSE Uncaught(h)
               /\ UNCHANGED <<base, head>>
          ELSE /\ base' = b
               /\ head' = h
               /\ pc' = "compute"
               /\ UNCHANGED <<stderr, exit_code>>
    /\ UNCHANGED <<args, base_file, head_file, delta, new_sites, result, written>>

Compute ==
    /\ pc = "compute"
    /\ LET d == compute_delta(base, head)
       IN IF IsRaise(d)
          THEN Uncaught(d) /\ UNCHANGED delta
          ELSE delta' = d /\ pc' = "find" /\ UNCHANGED <<stderr, exit_code>>
    /\ UNCHANGED <<args, base_file, head_file, base, head, new_sites, result, written>>

Find ==
    /\ pc = "find"
    /\ LET n == find_new_uninstrumented(base, head)
       IN IF IsRaise(n)
          THEN Uncaught(n) /\ UNCHANGED new_sites
          ELSE new_sites' = n /\ pc' = "render" /\ UNCHANGED <<stderr, exit_code>>
    /\ UNCHANGED <<args, base_file, head_file, base, head, delta, result, written>>

Render ==
    /\ pc = "render"
    /\ LET r == IF args.json_output
                THEN PyStr(JsonDumps(JsonOutput(delta, new_sites), 0))
                ELSE render_markdown(delta, new_sites)
       IN IF IsRaise(r)
          THEN Uncaught(r) /\ UNCHANGED result
          ELSE result' = r /\ pc' = "write" /\ UNCHANGED <<stderr, exit_code>>
    /\ UNCHANGED <<args, base_file, head_file, base, head, delta, new_sites, written>>

\* A write that stops half way through the text.
WriteTruncated ==
    /\ pc = "write"
    /\ written' = [to |-> IF args.output THEN "file" ELSE "stdout",
                   text |-> SubSeq(result.s, 1, Len(result.s) \div 2)]
    /\ pc' = "exit_check"
    /\ UNCHANGED <<args, base_file, head_file, base, head, delta, new_sites,
                   result, stderr, exit_code>>

\* Path(args.output).write_text(result), or print(result)
Write ==
    /\ pc = "write"
    /\ written' = IF args.output
                  THEN [to |-> "file", text |-> result.s]
                  ELSE [to |-> "stdout", text |-> result.s \o "\n"]
    /\ pc' = "exit_check"
    /\ UNCHANGED <<args, base_file, head_file, base, head, delta, new_sites,
                   result, stderr, exit_code>>

\* if args.fail_on_regression and delta["score"]["delta"] < 0: sys.exit(1)
Regression == args.fail_on_regression /\ Negative(Item(Item(delta, "score"), "delta")).b

ExitCheck ==
    /\ pc = "exit_check"
    /\ exit_code' = IF Regression THEN 1 ELSE 0
    /\ pc' = "exited"
    /\ UNCHANGED <<args, base_file, head_file, base, head, delta, new_sites,
                   result, written, stderr>>

Next ==
    \/ CheckBaseExists
    \/ CheckHeadExists
    \/ LoadInputs
    \/ Compute
    \/ Find
    \/ Render
    \/ Write
    \/ ExitCheck

Spec == Init /\ [][Next]_vars

-----------------------------------------------------------------------------
(* What the claims speak of *)

Absent == [t |-> "absent"]

Field(site, k) == IF k \in DOMAIN site.m THEN site.m[k] ELSE Absent

\* The identity of a call site: its (file, line, call) triple.
Triple(site) == <<Field(site, "file"), Field(site, "line"), Field(site, "call")>>

\* A document whose site list is a list of dicts.
SitesOK(doc) ==
    LET l == SiteList(doc)
    IN l.t = "list" /\ \A k \in 1..Len(l.l) : l.l[k].t = "obj"

BaseSites == SiteList(base).l
HeadSites == SiteList(head).l

DeltaComputed == pc # "call_compute_delta" /\ pc # "start"
SitesFound == pc \in {"call_render_markdown", "returned"}

InBase(site) == \E j \in 1..Len(BaseSites) : Triple(BaseSites[j]) = Triple(site)

FlagFalse(site) == Field(site, "instrumented") = PyBool(FALSE)

\* The record a reported site is expected to give.
Reported(site) ==
    Dict([file |-> IF "file" \in DOMAIN site.m THEN site.m["file"] ELSE PyStr("unknown"),
          line |-> IF "line" \in DOMAIN site.m THEN PyStr(StrOf(site.m["line"])) ELSE PyStr("?"),
          call |-> IF "call" \in DOMAIN site.m THEN site.m["call"] ELSE PyStr("unknown"),
          provider |-> IF "provider" \in DOMAIN site.m THEN site.m["provider"]
                       ELSE PyStr("unknown")])

\* A head site that is not instrumented (its flag false or missing).
NotInstrumented(site) ==
    "instrumented" \notin DOMAIN site.m \/ ~Truthy(site.m["instrumented"])

\* The head sites that qualify: not instrumented, and no base site has
\* their triple.  In the order of head's list.
QualifyingIdx ==
    SelectSeq([k \in 1..Len(HeadSites) |-> k],
              LAMBDA k : NotInstrumented(HeadSites[k]) /\ ~InBase(HeadSites[k]))

\* C1: every head site whose instrumented flag is false and whose triple is
\* the triple of no base site appears in the output of
\* find_new_uninstrumented.  Stated for the documents in which at most 10
\* sites qualify, where the cap of 10 drops nothing.
C1_EveryNewUninstrumentedSiteReported ==
    (SitesFound /\ SitesOK(base) /\ SitesOK(head) /\ Len(QualifyingIdx) <= Cap) =>
        /\ ~IsRaise(new_sites)
        /\ \A k \in 1..Len(HeadSites) :
              (FlagFalse(HeadSites[k]) /\ ~InBase(HeadSites[k])) =>
                  \E n \in 1..Len(new_sites.l) : new_sites.l[n] = Reported(HeadSites[k])

\* The head sites find_new_uninstrumented reported, by their index in head's
\* list, in the order of the output.
ReportedIdx ==
    LET es == FindNewEntries(base, head).l
    IN [n \in 1..Len(es) |-> es[n].idx]

\* C2: no reported head site has the (file, line, call) triple of a base
\* site, whatever the flag and the provider of that base site, and no head
\* site whose instrumented flag is true is reported.
C2_NoBaseSiteAndNoInstrumentedSiteReported ==
    (SitesFound /\ SitesOK(base) /\ SitesOK(head)) =>
        /\ ~IsRaise(new_sites)
        /\ Len(new_sites.l) = Len(ReportedIdx)
        /\ \A n \in 1..Len(new_sites.l) :
              LET site == HeadSites[ReportedIdx[n]]
              IN /\ new_sites.l[n] = Reported(site)
                 /\ ~InBase(site)
                 /\ Field(site, "instrumented") # PyBool(TRUE)

\* A site of both lists whose flag and provider changed, and a new site
\* beside it that is reported.
C2_Witness ==
    /\ SitesFound /\ SitesOK(base) /\ SitesOK(head)
    /\ ~IsRaise(new_sites) /\ Len(new_sites.l) >= 1
    /\ \E k \in 1..Len(HeadSites), j \in 1..Len(BaseSites) :
          /\ Triple(HeadSites[k]) = Triple(BaseSites[j])
          /\ Field(HeadSites[k], "instrumented") # Field(BaseSites[j], "instrumented")
          /\ Field(HeadSites[k], "provider") # Field(BaseSites[j], "provider")
          /\ Field(HeadSites[k], "instrumented") = PyBool(FALSE)

\* C3: the output has length min(10, q), q the number of qualifying head
\* sites, and is the first min(10, q) of them in the order of head's list.
C3_OutputIsCappedPrefixOfQualifying ==
    (SitesFound /\ SitesOK(base) /\ SitesOK(head)) =>
        /\ ~IsRaise(new_sites)
        /\ Len(new_sites.l) = Min(Cap, Len(QualifyingIdx))
        /\ \A n \in 1..Len(new_sites.l) :
              n <= Len(QualifyingIdx)
              /\ new_sites.l[n] = Reported(HeadSites[QualifyingIdx[n]])

\* An input of main that does not exist or does not parse as JSON.
Unreadable(file) == file.kind \in {"missing", "invalid_json"}

\* C4: main exits 3 when an input path does not exist or an input fails to
\* parse, 1 when fail-on-regression is set and the score delta is negative,
\* and 0 on every other completion; it never exits 1 unless
\* fail-on-regression is set and the score delta is negative.
C4_ExitCodes ==
    LET regressed == /\ delta # None /\ ~IsRaise(delta)
                     /\ Centi(delta.m["score"].m["delta"]) < 0
    IN pc = "exited" =>
          exit_code = IF Unreadable(base_file) \/ Unreadable(head_file) THEN 3
                      ELSE IF args.fail_on_regression /\ regressed THEN 1
                      ELSE 0

\* C5: compute_delta maps sites_total, instrumented, uninstrumented, score
\* and coverage_pct each to an entry with exactly the fields base, head and
\* delta, and grade to an entry with exactly the fields base and head.
C5_EntryFields ==
    (DeltaComputed /\ ~IsRaise(delta)) =>
        /\ DOMAIN delta.m = {"sites_total", "instrumented", "uninstrumented",
                             "score", "coverage_pct", "grade"}
        /\ \A k \in {"sites_total", "instrumented", "uninstrumented", "score",
                     "coverage_pct"} :
              DOMAIN delta.m[k].m = {"base", "head", "delta"}
        /\ DOMAIN delta.m["grade"].m = {"base", "head"}

Abs(x) == IF x < 0 THEN -x ELSE x

\* c (in hundredths) is num/den * 100 rounded to one decimal place.
IsPercentRoundedToTenth(c, num, den) ==
    /\ c % 10 = 0
    /\ 2 * Abs(c * den - 10000 * num) <= 10 * den

\* The coverage a side is expected to show, for its resolved counts.
CoverageAsClaimed(cov, instr, sites) ==
    IF Centi(sites) = 0 THEN IsNum(cov) /\ Centi(cov) = 0
    ELSE cov.t = "float" /\ IsPercentRoundedToTenth(cov.c, Centi(instr), Centi(sites))

\* C6: on each side the coverage is 0 when that side's sites_total is 0,
\* whatever its instrumented value, and instrumented / sites_total * 100
\* rounded to one decimal place otherwise; no division by zero is raised.
C6_CoveragePct ==
    DeltaComputed =>
        /\ IsRaise(delta) => delta.exc # "ZeroDivisionError"
        /\ ~IsRaise(delta) =>
              /\ CoverageAsClaimed(delta.m["coverage_pct"].m["base"],
                                   delta.m["instrumented"].m["base"],
                                   delta.m["sites_total"].m["base"])
              /\ CoverageAsClaimed(delta.m["coverage_pct"].m["head"],
                                   delta.m["instrumented"].m["head"],
                                   delta.m["sites_total"].m["head"])

\* A base with no sites and a positive instrumented count, beside a head
\* whose coverage needs rounding (2 of 3).
C6_Witness ==
    /\ DeltaComputed /\ ~IsRaise(delta)
    /\ Centi(delta.m["sites_total"].m["base"]) = 0
    /\ Centi(delta.m["instrumented"].m["base"]) > 0
    /\ delta.m["coverage_pct"].m["base"] = PyInt(0)
    /\ delta.m["coverage_pct"].m["head"] = PyFloat(6670)

CountMetrics == {"sites_total", "instrumented", "uninstrumented"}

\* C7: the delta of sites_total, instrumented and uninstrumented is head
\* minus base; the score delta is head score minus base score rounded to
\* one decimal place, negative results included; two identical documents
\* give deltas of 0 and the same coverage on both sides.
C7_Deltas ==
    (DeltaComputed /\ ~IsRaise(delta)) =>
        LET sc == delta.m["score"].m
        IN /\ \A k \in CountMetrics :
                 Centi(delta.m[k].m["delta"]) =
                     Centi(delta.m[k].m["head"]) - Centi(delta.m[k].m["base"])
           /\ Centi(sc["delta"]) % 10 = 0
           /\ 2 * Abs(Centi(sc["delta"]) - (Centi(sc["head"]) - Centi(sc["base"]))) <= 10
           /\ base = head =>
                 /\ \A k \in CountMetrics \cup {"score"} : Centi(delta.m[k].m["delta"]) = 0
                 /\ delta.m["coverage_pct"].m["base"] = delta.m["coverage_pct"].m["head"]

\* A negative score delta that rounding changed: 10.25 - 17.5 gives -7.2.
C7_Witness ==
    /\ DeltaComputed /\ ~IsRaise(delta)
    /\ delta.m["score"].m["base"] = PyFloat(1750)
    /\ delta.m["score"].m["head"] = PyFloat(1025)
    /\ delta.m["score"].m["delta"] = PyFloat(-720)

MetricFields == {"sites_total", "instrumented", "uninstrumented"}

\* A dict whose keys, where present, hold values of the expected type.
WellTypedSite(site) ==
    /\ site.t = "obj"
    /\ \A k \in DOMAIN site.m \cap {"file", "call", "provider"} : site.m[k].t = "str"
    /\ "line" \in DOMAIN site.m => site.m["line"].t \in {"int", "str"}
    /\ "instrumented" \in DOMAIN site.m => site.m["instrumented"].t = "bool"

WellTypedSites(l) == l.t = "list" /\ \A k \in 1..Len(l.l) : WellTypedSite(l.l[k])

WellTypedCounts(d) ==
    d.t = "obj" /\ \A k \in DOMAIN d.m \cap MetricFields : d.m[k].t = "int"

\* A document that is a mapping in which keys may be absent and nothing
\* present has the wrong type.
AbsentKeysOnly(doc) ==
    /\ doc.t = "obj"
    /\ "scan" \in DOMAIN doc.m =>
          /\ WellTypedCounts(doc.m["scan"])
          /\ "summary" \in DOMAIN doc.m["scan"].m => WellTypedCounts(doc.m["scan"].m["summary"])
          /\ "sites" \in DOMAIN doc.m["scan"].m => WellTypedSites(doc.m["scan"].m["sites"])
    /\ "sites" \in DOMAIN doc.m => WellTypedSites(doc.m["sites"])
    /\ "score" \in DOMAIN doc.m =>
          /\ doc.m["score"].t = "obj"
          /\ "score" \in DOMAIN doc.m["score"].m => IsNum(doc.m["score"].m["score"])
          /\ "grade" \in DOMAIN doc.m["score"].m => doc.m["score"].m["grade"].t = "str"

\* The key is found neither under scan.summary nor under scan.
MetricAbsent(doc, k) ==
    \/ "scan" \notin DOMAIN doc.m
    \/ /\ k \notin DOMAIN doc.m["scan"].m
       /\ \/ "summary" \notin DOMAIN doc.m["scan"].m
          \/ k \notin DOMAIN doc.m["scan"].m["summary"].m

ScoreAbsent(doc, k) ==
    "score" \notin DOMAIN doc.m \/ k \notin DOMAIN doc.m["score"].m

SitesAbsent(doc) ==
    /\ "sites" \notin DOMAIN doc.m
    /\ "scan" \notin DOMAIN doc.m \/ "sites" \notin DOMAIN doc.m["scan"].m

\* What compute_delta shows for one side of a document with absent keys.
DefaultsApplied(doc, side) ==
    /\ \A k \in MetricFields : MetricAbsent(doc, k) => delta.m[k].m[side] = PyInt(0)
    /\ ScoreAbsent(doc, "score") => delta.m["score"].m[side] = PyInt(0)
    /\ ScoreAbsent(doc, "grade") => delta.m["grade"].m[side] = PyStr("?")

\* C8: on two mappings in which any of scan, scan.summary, scan.sites,
\* sites, score and the metric fields are absent, compute_delta and
\* find_new_uninstrumented return without raising; an absent number is
\* taken as 0, an absent grade as "?", an absent site list as the empty list.
C8_AbsentKeysDefault ==
    (AbsentKeysOnly(base) /\ AbsentKeysOnly(head)) =>
        /\ DeltaComputed =>
              /\ ~IsRaise(delta)
              /\ DefaultsApplied(base, "base")
              /\ DefaultsApplied(head, "head")
        /\ SitesFound =>
              /\ ~IsRaise(new_sites)
              /\ SitesAbsent(head) => new_sites = EmptyPyList
              /\ SitesAbsent(base) => Len(new_sites.l) = Min(Cap, Len(QualifyingIdx))

\* The documents {scan: {}, score: {}} of test_empty_scan_data, both
\* functions returned.
C8_Witness ==
    /\ base = Dict([scan |-> EmptyDict, score |-> EmptyDict])
    /\ head = Dict([scan |-> EmptyDict, score |-> EmptyDict])
    /\ SitesFound
    /\ new_sites = EmptyPyList
    /\ delta.m["grade"].m["base"] = PyStr("?")
    /\ delta.m["sites_total"].m["head"] = PyInt(0)

\* The summary fields are carried under scan.summary and nowhere else.
NestedSummaryOnly(doc) ==
    HasSummary(doc) /\ DOMAIN doc.m["scan"].m \cap MetricFields = {}

\* The site list is carried under scan.sites and nowhere else.
NestedSitesOnly(doc) == HasScanSites(doc) /\ "sites" \notin DOMAIN doc.m

\* The same document in the other layout, where it has one.
OtherSummaryLayout(doc) == IF NestedSummaryOnly(doc) THEN FlatSummary(doc) ELSE doc
OtherSitesLayout(doc) == IF NestedSitesOnly(doc) THEN TopLevelSites(doc) ELSE doc

\* C9: a document with its summary fields under scan.summary and the same
\* document with them directly under scan give the same compute_delta
\* result, and a document with its site list under scan.sites and the same
\* document with it under the top-level sites give the same
\* find_new_uninstrumented result; on either side, and on both.
C9_LayoutsEquivalent ==
    /\ DeltaComputed =>
          /\ compute_delta(OtherSummaryLayout(base), head) = delta
          /\ compute_delta(base, OtherSummaryLayout(head)) = delta
          /\ compute_delta(OtherSummaryLayout(base), OtherSummaryLayout(head)) = delta
    /\ SitesFound =>
          /\ find_new_uninstrumented(OtherSitesLayout(base), head) = new_sites
          /\ find_new_uninstrumented(base, OtherSitesLayout(head)) = new_sites
          /\ find_new_uninstrumented(OtherSitesLayout(base), OtherSitesLayout(head)) = new_sites

\* A base in the nested layout and a head in the flat one, with counts
\* that differ and are not 0.
C9_Witness ==
    /\ DeltaComputed /\ ~IsRaise(delta)
    /\ NestedSummaryOnly(base)
    /\ ~HasSummary(head) /\ "sites_total" \in DOMAIN head.m["scan"].m
    /\ delta.m["sites_total"].m["base"] = PyInt(2)
    /\ delta.m["sites_total"].m["head"] = PyInt(3)
    /\ delta.m["instrumented"].m["head"] = PyInt(2)

\* sub occurs in text
Contains(text, sub) ==
    \E i \in 1..(Len(text) - Len(sub) + 1) : SubSeq(text, i, i + Len(sub) - 1) = sub

Rendered == pc = "returned" /\ ~IsRaise(result)

ScoreDeltaCenti == Centi(delta.m["score"].m["delta"])

\* C10 as the specification states it: the text contains "improved" if and
\* only if the score delta is > 0, "regressed" if and only if it is < 0, and
\* neither when it is 0.
C10_LabelIffSign ==
    Rendered =>
        /\ Contains(result.s, "improved") <=> ScoreDeltaCenti > 0
        /\ Contains(result.s, "regressed") <=> ScoreDeltaCenti < 0

\* The texts render_markdown copies into the report: the two grades and the
\* fields of the new sites.
CopiedTexts ==
    {StrOf(delta.m["grade"].m["base"]), StrOf(delta.m["grade"].m["head"])}
    \cup {StrOf(new_sites.l[n].m[k]) :
            n \in 1..Len(new_sites.l), k \in {"file", "line", "call", "provider"}}

CopiedContains(word) == \E t \in CopiedTexts : Contains(t, word)

\* C10, amended: the text contains "improved" if and only if the score
\* delta is > 0 or a grade or new-site text copied into the report contains
\* it, and "regressed" if and only if the score delta is < 0 or such a text
\* contains it.
C10_LabelIffSignOrCopiedText ==
    Rendered =>
        /\ Contains(result.s, "improved") <=> (ScoreDeltaCenti > 0 \/ CopiedContains("improved"))
        /\ Contains(result.s, "regressed") <=> (ScoreDeltaCenti < 0 \/ CopiedContains("regressed"))

\* A regression rendered with its label, no copied text holding the word.
C10_Witness ==
    /\ Rendered
    /\ ScoreDeltaCenti < 0
    /\ Contains(result.s, " [regressed] |")
    /\ ~Contains(result.s, "improved")
    /\ ~CopiedContains("regressed")

\* What main wrote is the text t, as print or write_text leaves it.
WroteText(t) ==
    /\ written.to # "none"
    /\ written.text = IF written.to = "stdout" THEN t \o "\n" ELSE t

\* The record the structured output is claimed to be.
StructuredRecord ==
    Dict([delta |-> compute_delta(base, head),
          new_uninstrumented_sites |-> find_new_uninstrumented(base, head),
          regressed |-> PyBool(ScoreDeltaCenti < 0)])

\* C11: in --json mode what main writes is the serialisation of a record
\* with exactly the fields delta (what compute_delta returned),
\* new_uninstrumented_sites (what find_new_uninstrumented returned) and
\* regressed, true iff the score delta is < 0, whatever --fail-on-regression
\* says.
C11_StructuredOutput ==
    (args.json_output /\ written.to # "none") =>
        /\ DOMAIN StructuredRecord.m = {"delta", "new_uninstrumented_sites", "regressed"}
        /\ delta = StructuredRecord.m["delta"]
        /\ new_sites = StructuredRecord.m["new_uninstrumented_sites"]
        /\ WroteText(JsonDumps(StructuredRecord, 0))
        /\ Contains(written.text, "\"regressed\": true") <=> ScoreDeltaCenti < 0
        /\ Contains(written.text, "\"regressed\": false") <=> ScoreDeltaCenti >= 0

\* A regression written in --json mode by a run without --fail-on-regression,
\* which exits 0.
C11_Witness ==
    /\ pc = "exited" /\ exit_code = 0
    /\ args.json_output /\ ~args.fail_on_regression
    /\ written.to # "none"
    /\ ScoreDeltaCenti < 0
    /\ Len(new_sites.l) >= 1
    /\ Contains(written.text, "\"regressed\": true")

\* The complete result of a run: the serialised record in --json mode, the
\* report otherwise.
FullResult ==
    IF args.json_output THEN JsonDumps(StructuredRecord, 0)
    ELSE render_markdown(compute_delta(base, head),
                         find_new_uninstrumented(base, head)).s

\* An input main cannot use: a path that is missing or no file, text that
\* is not JSON, or a document one of the computations raises on.
BadInputs ==
    \/ base_file.kind # "json"
    \/ head_file.kind # "json"
    \/ IsRaise(compute_delta(base_file.content, head_file.content))
    \/ IsRaise(find_new_uninstrumented(base_file.content, head_file.content))

\* C12: main applies nothing partially.  A run that wrote anything loaded
\* both documents, computed the delta and the new sites from them, and wrote
\* the complete result; a run that ended without writing ended in a failure
\* exit with a message on standard error; and a run whose inputs are
\* missing, unparseable or malformed ended in failure and wrote nothing.
C12_NothingPartiallyApplied ==
    /\ written.to # "none" =>
          /\ base_file.kind = "json" /\ head_file.kind = "json"
          /\ base = base_file.content /\ head = head_file.content
          /\ delta = compute_delta(base, head) /\ ~IsRaise(delta)
          /\ new_sites = find_new_uninstrumented(base, head) /\ ~IsRaise(new_sites)
          /\ WroteText(FullResult)
    /\ pc = "exited" =>
          /\ written.to = "none" => (exit_code \in {1, 3} /\ stderr # "")
          /\ written.to # "none" => (exit_code \in {0, 1} /\ stderr = "")
          /\ BadInputs => (written = NotWritten /\ exit_code # 0)
    /\ pc \in {"start", "check_head", "load", "compute", "find", "render", "write"} =>
          written = NotWritten

\* A run that wrote the complete report to the output file and then exited
\* 1 on the regression, and whose documents carry call sites.
C12_Witness ==
    /\ pc = "exited" /\ exit_code = 1
    /\ written.to = "file" /\ written.text = FullResult
    /\ ~args.json_output
    /\ delta = compute_delta(base, head)
    /\ Len(new_sites.l) >= 1

\* The text a line is claimed to become: a number in decimal, a text itself.
LineText(line) ==
    CASE line = Absent -> "?"
      [] line.t = "int" -> ToString(line.i)
      [] line.t = "str" -> line.s

\* C13: every record find_new_uninstrumented emits has exactly the fields
\* file, line, call and provider of the head site it was emitted for, the
\* line as text; a field the head site lacks is "unknown" for file, call and
\* provider and "?" for line.
C13_RecordFields ==
    (SitesFound /\ SitesOK(base) /\ SitesOK(head)) =>
        /\ ~IsRaise(new_sites)
        /\ Len(new_sites.l) = Len(ReportedIdx)
        /\ \A n \in 1..Len(new_sites.l) :
              LET site == HeadSites[ReportedIdx[n]]
                  rec == new_sites.l[n]
              IN /\ rec.t = "obj"
                 /\ DOMAIN rec.m = {"file", "line", "call", "provider"}
                 /\ \A k \in {"file", "call", "provider"} :
                       rec.m[k] = IF k \in DOMAIN site.m THEN site.m[k]
                                  ELSE PyStr("unknown")
                 /\ rec.m["line"] = PyStr(LineText(Field(site, "line")))

\* An output holding the record of a site with the numeric line 9 and the
\* record of a site without any field.
C13_Witness ==
    /\ SitesFound /\ SitesOK(base) /\ SitesOK(head) /\ ~IsRaise(new_sites)
    /\ \E n \in 1..Len(new_sites.l) :
          /\ Field(HeadSites[ReportedIdx[n]], "line") = PyInt(9)
          /\ new_sites.l[n].m["line"] = PyStr("9")
    /\ \E n \in 1..Len(new_sites.l) :
          /\ DOMAIN HeadSites[ReportedIdx[n]].m = {}
          /\ new_sites.l[n] = Dict([file |-> PyStr("unknown"), line |-> PyStr("?"),
                                    call |-> PyStr("unknown"), provider |-> PyStr("unknown")])

\* The set base_sites the first loop of find_new_uninstrumented builds.
BaseKeys == BaseLoop(BaseSites, 1, {}).e

\* C14: the membership test of find_new_uninstrumented takes a head site
\* for a base site if and only if some base site has its (file, line, call)
\* triple: sites whose triples differ in a component are never conflated,
\* sites with equal triples are always matched.
C14_SameSiteIffTriplesEqual ==
    (SitesFound /\ SitesOK(base) /\ SitesOK(head)) =>
        \A k \in 1..Len(HeadSites) :
            NotInstrumented(HeadSites[k]) =>
                (~IsNewKey(SiteKey(HeadSites[k]).s, BaseKeys) <=> InBase(HeadSites[k]))

\* A scan-summary field resolved as claimed: scan.summary.<field> if
\* present, else scan.<field> if present, else 0.
ResolvedField(doc, f) ==
    LET scan == IF "scan" \in DOMAIN doc.m THEN doc.m["scan"] ELSE EmptyDict
        summary == IF "summary" \in DOMAIN scan.m THEN scan.m["summary"] ELSE EmptyDict
    IN IF f \in DOMAIN summary.m THEN summary.m[f]
       ELSE IF f \in DOMAIN scan.m THEN scan.m[f]
       ELSE PyInt(0)

\* C15: for each document and each of sites_total, instrumented and
\* uninstrumented, compute_delta reads the field by the ordered fallback
\* nested value, else flat value, else 0; a field under scan that an
\* existing scan.summary lacks is read from scan.
C15_PerFieldFallback ==
    (DeltaComputed /\ ~IsRaise(delta)) =>
        \A f \in CountMetrics :
            /\ delta.m[f].m["base"] = ResolvedField(base, f)
            /\ delta.m[f].m["head"] = ResolvedField(head, f)

StartsWith(text, prefix) ==
    Len(prefix) <= Len(text) /\ SubSeq(text, 1, Len(prefix)) = prefix

EndsWith(text, suffix) ==
    Len(suffix) <= Len(text)
    /\ SubSeq(text, Len(text) - Len(suffix) + 1, Len(text)) = suffix

\* The number of lines of a text.
LineCount(text) ==
    1 + Cardinality({i \in 1..Len(text) : SubSeq(text, i, i) = "\n"})

\* The parts of the report the claim fixes.
ReportHead ==
    "## Evidence Readiness Score Delta\n\n" \o
    "| Metric | Base | Head | Delta |\n" \o
    "|--------|------|------|-------|\n" \o
    "| **Score** | "

ReportFoot == "\n\n---\n" \o Footer

\* The table row claimed for one element of new_sites.
ClaimedSiteRow(site) ==
    "| " \o Backquote \o site.m["file"].s \o Backquote \o " | " \o site.m["line"].s \o
    " | " \o Backquote \o site.m["call"].s \o Backquote \o " | " \o
    site.m["provider"].s \o " |"

\* The section claimed for a non-empty new_sites: title, table head, one
\* row per element in order, the remediation hint.
ClaimedSection ==
    "\n\n### New Uninstrumented Call Sites\n\n" \o
    "| File | Line | Call | Provider |\n" \o
    "|------|------|------|----------|\n" \o
    Join([k \in 1..Len(new_sites.l) |-> ClaimedSiteRow(new_sites.l[k])], "\n") \o
    "\n\n" \o FixHint

\* The grade row claimed: a transition only when the grades differ.
ClaimedGradeRow ==
    LET b == delta.m["grade"].m["base"].s
        h == delta.m["grade"].m["head"].s
    IN "\n| **Grade** | " \o b \o " | " \o h \o " | " \o
       (IF b # h THEN b \o " -> " \o h ELSE h) \o " |\n| Call Sites | "

\* C16: the report holds the "New Uninstrumented Call Sites" section iff
\* new_sites is not empty; the section has one table row per element of
\* new_sites, in order, and then the remediation hint; header, metric table
\* and footer are there in every case; the grade row shows "base -> head"
\* only when the grades differ.
C16_ReportLayout ==
    Rendered =>
        LET n == Len(new_sites.l)
        IN /\ StartsWith(result.s, ReportHead)
           /\ EndsWith(result.s, (IF n = 0 THEN "" ELSE ClaimedSection) \o ReportFoot)
           /\ LineCount(result.s) = 13 + (IF n = 0 THEN 0 ELSE 7 + n)
           /\ Contains(result.s, "New Uninstrumented Call Sites") <=> n > 0
           /\ Contains(result.s, FixHint) <=> n > 0
           /\ Contains(result.s, ClaimedGradeRow)
           /\ Contains(result.s, " -> ") <=>
                 delta.m["grade"].m["base"] # delta.m["grade"].m["head"]

\* A report with two new sites and a grade that changed.
C16_Witness ==
    /\ Rendered
    /\ Len(new_sites.l) >= 2
    /\ new_sites.l[1] # new_sites.l[2]
    /\ delta.m["grade"].m["base"] # delta.m["grade"].m["head"]
    /\ Contains(result.s, ClaimedSiteRow(new_sites.l[1]) \o "\n" \o
                          ClaimedSiteRow(new_sites.l[2]))

\* Head's sites with instrumented = false written into each site that has
\* no instrumented field, as a document of their own.
HeadFlagsFilled ==
    Dict([sites |-> PyList([k \in 1..Len(HeadSites) |->
                              IF "instrumented" \in DOMAIN HeadSites[k].m
                              THEN HeadSites[k]
                              ELSE With(HeadSites[k], "instrumented", PyBool(FALSE))])])

\* C17: a head site without an instrumented field is handled like one with
\* instrumented = false.  The output is what it would be with the flag
\* written out as false; such a site is reported when no base site has its
\* triple and it is among the first 10 qualifying sites; and every
\* occurrence of a repeated qualifying triple is emitted.
C17_MissingFlagIsUninstrumented ==
    (SitesFound /\ SitesOK(base) /\ SitesOK(head)) =>
        /\ ~IsRaise(new_sites)
        /\ new_sites = find_new_uninstrumented(base, HeadFlagsFilled)
        /\ \A n \in 1..Min(Cap, Len(QualifyingIdx)) :
              "instrumented" \notin DOMAIN HeadSites[QualifyingIdx[n]].m =>
                  \E r \in 1..Len(ReportedIdx) : ReportedIdx[r] = QualifyingIdx[n]

====
